---- MODULE Spec2Model ----
(***************************************************************************)
(* ShortDeckPokerState (pluribus/games/short_deck/state.py) as a state     *)
(* machine over a heap of objects.                                         *)
(*                                                                         *)
(* A ShortDeckPokerState object holds references to a table graph (the     *)
(* PokerTable with its players, the pot and the PokerEngine that works on  *)
(* it) and to a history list, plus its own scalar fields.  apply_action    *)
(* deep-copies the whole graph and mutates the copy, so object identity    *)
(* matters: the heap is modelled as three maps from object ids to          *)
(* contents.  The caller is a tree search that holds one current state     *)
(* (cur), derives successors of it and descends into one of them.          *)
(*                                                                         *)
(* Player, PokerTable and PokerEngine are not part of state.py; they are   *)
(* modelled from the specification's description of the collaborators.     *)
(* In particular `len(self._table.player)` (state.py:101) is read as the   *)
(* table's player count.                                                   *)
(***************************************************************************)
EXTENDS Integers, Sequences, FiniteSets, TLC

\* ------------------------------------------------------------------ bounds
\* Number of ShortDeckPokerState objects the caller keeps alive at once
\* (the current state and the successors derived from it).
MaxStates == 3
\* The caller stops deriving successors of a state whose history has this
\* many records (caps the length of the action chains explored).
MaxHistory == 4
\* The same cap for a caller that only applies legal actions (its chains
\* branch less, so they are followed further).
MaxLegalHistory == 7
\* Largest initial chip stack of a player.
MaxChips == 250

\* ------------------------------------------------------- program constants
\* state.py:173  `self._n_raises < 3`
RaiseCap == 3

Stages == {"pre_flop", "flop", "turn", "river", "show_down", "terminal"}

\* kwargs without `n_chips`
NoChips == -1

\* The inputs of a hand: the players handed to __init__ (their number, their
\* initial stack) and the two blinds.
Configs ==
  { [n |-> 2, small_blind |-> 50, big_blind |-> 100, chips |-> 100],
    [n |-> 2, small_blind |-> 50, big_blind |-> 100, chips |-> MaxChips],
    [n |-> 2, small_blind |-> 50, big_blind |-> 125, chips |-> MaxChips],
    [n |-> 3, small_blind |-> 50, big_blind |-> 100, chips |-> MaxChips] }

VARIABLES
  states,   \* id -> ShortDeckPokerState object (its fields; table/history are references)
  tables,   \* id -> table graph: players, pot, engine bookkeeping
  hists,    \* id -> history list
  cur,      \* the state the caller currently holds as the head of its path
  last      \* the last call the caller made and what it got back

vars == <<states, tables, hists, cur, last>>

Ids == 1..MaxStates

\* ---------------------------------------------------------------- helpers
Min(S) == CHOOSE x \in S : \A y \in S : x <= y

Max(S) == CHOOSE x \in S : \A y \in S : x >= y

Extend(f, k, v) == [x \in (DOMAIN f) \cup {k} |-> IF x = k THEN v ELSE f[x]]

Restrict(f, D) == [x \in D |-> f[x]]

Heap == [states |-> states, tables |-> tables, hists |-> hists]

\* Objects no live state refers to are garbage.
Collect(H) ==
  [states |-> H.states,
   tables |-> Restrict(H.tables, {H.states[s].table : s \in DOMAIN H.states}),
   hists  |-> Restrict(H.hists, {H.states[s].history : s \in DOMAIN H.states})]

\* ------------------------------------------------- Player (collaborator)
\* Player.add_to_pot: move up to n chips from the stack to the pot.
add_to_pot(tbl, i, n) ==
  LET p == tbl.players[i]
      k == IF n > p.n_chips THEN p.n_chips ELSE n
  IN [tbl EXCEPT !.players[i].n_chips = p.n_chips - k,
                 !.players[i].n_bet_chips = p.n_bet_chips + k,
                 !.pot = tbl.pot + k]

\* Player.call(players): match the biggest bet among `players`.
call(tbl, i, players) ==
  LET biggest == Max({players[j].n_bet_chips : j \in DOMAIN players})
      n == biggest - tbl.players[i].n_bet_chips
  IN add_to_pot(tbl, i, IF n > 0 THEN n ELSE 0)

\* Player.fold(): the player is marked inactive.
fold(tbl, i) == [tbl EXCEPT !.players[i].is_active = FALSE]

\* Player.raise_to(n_chips): put n_chips more into the pot.
raise_to(tbl, i, n_chips) == add_to_pot(tbl, i, n_chips)

is_all_in(p) == p.is_active /\ p.n_chips = 0

\* ------------------------------------------- PokerEngine (collaborator)
n_active_players(tbl) ==
  Cardinality({j \in DOMAIN tbl.players : tbl.players[j].is_active})

\* Players that still have a decision to make.
n_players_with_moves(tbl) ==
  Cardinality({j \in DOMAIN tbl.players :
                 tbl.players[j].is_active /\ ~is_all_in(tbl.players[j])})

\* Betting goes on while the players that can still act have unequal bets.
more_betting_needed(tbl) ==
  LET movers == {j \in DOMAIN tbl.players :
                   tbl.players[j].is_active /\ ~is_all_in(tbl.players[j])}
  IN \E j, k \in movers : tbl.players[j].n_bet_chips # tbl.players[k].n_bet_chips

\* Settlement: the pot goes to the strongest hand among the active players.
compute_winners(tbl) ==
  LET active == {j \in DOMAIN tbl.players : tbl.players[j].is_active}
      counted == [tbl EXCEPT !.compute_winners_calls = tbl.compute_winners_calls + 1]
  IN IF active = {} THEN counted
     ELSE LET w == CHOOSE j \in active :
                     \A k \in active : tbl.players[j].strength >= tbl.players[k].strength
          IN [counted EXCEPT !.players[w].n_chips = tbl.players[w].n_chips + tbl.pot,
                             !.pot = 0]

\* PokerEngine.round_setup: seat 0 posts the small blind, seat 1 the big blind.
round_setup(tbl, small_blind, big_blind) ==
  add_to_pot(add_to_pot(tbl, 1, small_blind), 2, big_blind)

\* --------------------------------------------------- ShortDeckPokerState
\* __init__: table, blinds, empty history, seat 0 to act, pre_flop.
\* `strength` stands for the private cards dealt at construction.
construct(cfg, strength) ==
  LET seated == [players |-> [j \in 1..cfg.n |->
                                [n_chips |-> cfg.chips, n_bet_chips |-> 0,
                                 is_active |-> TRUE, strength |-> strength[j]]],
                 pot |-> 0,
                 compute_winners_calls |-> 0]
  IN [st |-> [table |-> 1, history |-> 1,
              small_blind |-> cfg.small_blind, big_blind |-> cfg.big_blind,
              player_i |-> 0, betting_stage |-> "pre_flop",
              all_players_have_made_action |-> FALSE, n_raises |-> 0],
      tbl |-> round_setup(seated, cfg.small_blind, cfg.big_blind),
      hist |-> << >>]

is_terminal(st) == st.betting_stage \in {"show_down", "terminal"}

\* The working view of one state: its own fields, its table and its history.
Load(H, s) ==
  [st |-> H.states[s], tbl |-> H.tables[H.states[s].table],
   hist |-> H.hists[H.states[s].history]]

Store(H, s, W) ==
  [states |-> [H.states EXCEPT ![s] = W.st],
   tables |-> [H.tables EXCEPT ![W.st.table] = W.tbl],
   hists  |-> [H.hists EXCEPT ![W.st.history] = W.hist]]

current_player(W) == W.tbl.players[W.st.player_i + 1]

A(kind, n) == [action_str |-> kind, n_chips |-> n]

\* legal_actions with the cap test off by one (`<=` for `<`).
legal_actions_cap_off_by_one(W) ==
  IF current_player(W).is_active
  THEN LET bet_size == IF W.st.betting_stage \in {"pre_flop", "flop"}
                       THEN W.st.small_blind ELSE W.st.big_blind
       IN <<A("fold", NoChips), A("call", NoChips)>>
          \o (IF W.st.n_raises <= RaiseCap \/ n_active_players(W.tbl) = 2
              THEN <<A("raise", bet_size)>> ELSE << >>)
  ELSE <<A("None", NoChips)>>

\* legal_actions: the list the property returns; None is A("None", NoChips).
legal_actions(W) ==
  IF current_player(W).is_active
  THEN LET bet_size == IF W.st.betting_stage \in {"pre_flop", "flop"}
                       THEN W.st.small_blind ELSE W.st.big_blind
       IN <<A("fold", NoChips), A("call", NoChips)>>
          \o (IF W.st.n_raises < RaiseCap \/ n_active_players(W.tbl) = 2
              THEN <<A("raise", bet_size)>> ELSE << >>)
  ELSE <<A("None", NoChips)>>

\* _reset_betting_round_state
reset_betting_round_state(W) ==
  [W EXCEPT !.st.all_players_have_made_action = FALSE, !.st.n_raises = 0]

Ok(W) == [err |-> "", W |-> W]

Fail(e, W) == [err |-> e, W |-> W]

\* _increment_stage whose ladder starts a new round from any stage it does not
\* know instead of raising ValueError.
increment_stage_wrapping(W) ==
  LET W1 == reset_betting_round_state(W)
      stage == W.st.betting_stage
  IN CASE stage = "pre_flop" -> Fail("AttributeError", [W1 EXCEPT !.st.betting_stage = "flop"])
       [] stage = "flop"     -> Fail("AttributeError", [W1 EXCEPT !.st.betting_stage = "turn"])
       [] stage = "turn"     -> Fail("AttributeError", [W1 EXCEPT !.st.betting_stage = "river"])
       [] stage = "river"    -> Ok([W1 EXCEPT !.st.betting_stage = "show_down"])
       [] OTHER              -> Ok([W1 EXCEPT !.st.betting_stage = "pre_flop"])

\* _increment_stage: reset the round state, set the next stage, deal the
\* community cards.  The deals go through `self._engine`, an attribute no
\* code of the class ever sets (__init__ sets `_poker_engine`), so they raise
\* AttributeError after the stage has been assigned; only river -> show_down
\* deals nothing and returns.
increment_stage(W) ==
  LET W1 == reset_betting_round_state(W)
      stage == W.st.betting_stage
  IN CASE stage = "pre_flop" -> Fail("AttributeError", [W1 EXCEPT !.st.betting_stage = "flop"])
       [] stage = "flop"     -> Fail("AttributeError", [W1 EXCEPT !.st.betting_stage = "turn"])
       [] stage = "turn"     -> Fail("AttributeError", [W1 EXCEPT !.st.betting_stage = "river"])
       [] stage = "river"    -> Ok([W1 EXCEPT !.st.betting_stage = "show_down"])
       [] OTHER              -> Fail("ValueError", W1)

\* The local `action` before any branch has assigned it.
Unbound == A("<unbound>", NoChips)

\* The resolution with a raise that falls back to the small blind when the
\* caller gives no `n_chips`.
resolve_default_raise(W, a, self_players) ==
  LET i == W.st.player_i + 1
      n == IF a.n_chips = NoChips THEN W.st.small_blind ELSE a.n_chips
  IN CASE a.action_str = "None" ->
            IF current_player(W).is_active
            THEN [err |-> "AssertionError", W |-> W, action |-> Unbound]
            ELSE [err |-> "", W |-> W, action |-> Unbound]
       [] a.action_str = "call" ->
            [err |-> "", W |-> [W EXCEPT !.tbl = call(W.tbl, i, self_players)],
             action |-> A("call", NoChips)]
       [] a.action_str = "fold" ->
            [err |-> "", W |-> [W EXCEPT !.tbl = fold(W.tbl, i)],
             action |-> A("fold", NoChips)]
       [] a.action_str = "raise" ->
            [err |-> "",
             W |-> [W EXCEPT !.tbl = raise_to(W.tbl, i, n),
                             !.st.n_raises = W.st.n_raises + 1],
             action |-> A("raise", n)]
       [] OTHER -> [err |-> "UnboundLocalError", W |-> W, action |-> Unbound]

\* apply_action, lines 78-96: resolve action_str against the current player
\* of the copy.  The None branch assigns no `action`; the else branch
\* formats `type(action)` into its message, which is unbound there.
resolve(W, a, self_players) ==
  LET i == W.st.player_i + 1
  IN CASE a.action_str = "None" ->
            IF current_player(W).is_active
            THEN [err |-> "AssertionError", W |-> W, action |-> Unbound]
            ELSE [err |-> "", W |-> W, action |-> Unbound]
       [] a.action_str = "call" ->
            [err |-> "", W |-> [W EXCEPT !.tbl = call(W.tbl, i, self_players)],
             action |-> A("call", NoChips)]
       [] a.action_str = "fold" ->
            [err |-> "", W |-> [W EXCEPT !.tbl = fold(W.tbl, i)],
             action |-> A("fold", NoChips)]
       [] a.action_str = "raise" ->
            IF a.n_chips = NoChips
            THEN [err |-> "ValueError", W |-> W, action |-> Unbound]
            ELSE [err |-> "",
                  W |-> [W EXCEPT !.tbl = raise_to(W.tbl, i, a.n_chips),
                                  !.st.n_raises = W.st.n_raises + 1],
                  action |-> A("raise", a.n_chips)]
       [] OTHER -> [err |-> "UnboundLocalError", W |-> W, action |-> Unbound]

\* lines 98: new_state._history.append(action)
record_action(W, action) ==
  IF action = Unbound THEN Fail("UnboundLocalError", W)
  ELSE Ok([W EXCEPT !.hist = Append(W.hist, action)])

\* The seat advance with the comparison against one seat too few: the last
\* seat never gets its turn.
next_player_skipping_last_seat(W, n_seats) ==
  IF W.st.player_i + 1 >= n_seats - 1
  THEN [W EXCEPT !.st.player_i = 0, !.st.all_players_have_made_action = TRUE]
  ELSE [W EXCEPT !.st.player_i = W.st.player_i + 1]

\* lines 100-103: next seat; wrapping to seat 0 completes the round.
next_player(W, n_seats) ==
  IF W.st.player_i + 1 >= n_seats
  THEN [W EXCEPT !.st.player_i = 0, !.st.all_players_have_made_action = TRUE]
  ELSE [W EXCEPT !.st.player_i = W.st.player_i + 1]

\* lines 104-111: forced terminal, stage advance, or no change.
decide_stage(W) ==
  LET finished_betting == ~more_betting_needed(W.tbl)
  IN IF n_players_with_moves(W.tbl) = 0
     THEN Ok([W EXCEPT !.st.betting_stage = "terminal"])
     ELSE IF W.st.all_players_have_made_action /\ finished_betting
          THEN increment_stage(W)
          ELSE Ok(W)

\* lines 113-115: distribute winnings once the stage is terminal or show_down.
settle(W) ==
  IF W.st.betting_stage \in {"terminal", "show_down"}
  THEN [W EXCEPT !.tbl = compute_winners(W.tbl)]
  ELSE W

\* apply_action after the copy: lines 78-116 on the copy W.
transition(W, a, self_players, n_seats) ==
  LET r == resolve(W, a, self_players)
  IN IF r.err # "" THEN Fail(r.err, r.W)
     ELSE LET h == record_action(r.W, r.action)
          IN IF h.err # "" THEN h
             ELSE LET d == decide_stage(next_player(h.W, n_seats))
                  IN IF d.err # "" THEN d ELSE Ok(settle(d.W))

NewId(D) == Min(Ids \ D)

\* copy.copy(self) in place of the deep copy: a new state object that refers
\* to the table graph and the history list of the original.
shallow_copy(H, s) ==
  [states |-> Extend(H.states, NewId(DOMAIN H.states), H.states[s]),
   tables |-> H.tables,
   hists  |-> H.hists]

\* A copy that duplicates the table graph but keeps the original's history list.
copy_sharing_history(H, s) ==
  LET ns == NewId(DOMAIN H.states)
      nt == NewId(DOMAIN H.tables)
  IN [states |-> Extend(H.states, ns, [H.states[s] EXCEPT !.table = nt]),
      tables |-> Extend(H.tables, nt, H.tables[H.states[s].table]),
      hists  |-> H.hists]

\* copy.deepcopy(self): a new state object with its own table graph and its
\* own history list.
deepcopy(H, s) ==
  LET ns == NewId(DOMAIN H.states)
      nt == NewId(DOMAIN H.tables)
      nh == NewId(DOMAIN H.hists)
  IN [states |-> Extend(H.states, ns, [H.states[s] EXCEPT !.table = nt, !.history = nh]),
      tables |-> Extend(H.tables, nt, H.tables[H.states[s].table]),
      hists  |-> Extend(H.hists, nh, H.hists[H.states[s].history])]

\* apply_action(self = s, action_str, **kwargs) on heap H: the heap after the
\* call, the error raised ("" if none) and the id of the returned state.
\* When the call raises, the copy is unreachable and is collected.
apply_action(H, s, a) ==
  LET ns == NewId(DOMAIN H.states)
      H0 == deepcopy(H, s)
      self_table == H0.tables[H0.states[s].table]
      r == transition(Load(H0, ns), a, self_table.players, Len(self_table.players))
      H1 == Store(H0, ns, r.W)
  IN IF r.err = ""
     THEN [err |-> "", H |-> H1, new |-> ns]
     ELSE [err |-> r.err,
           H |-> Collect([H1 EXCEPT !.states = Restrict(H1.states, DOMAIN H1.states \ {ns})]),
           new |-> 0]

\* ----------------------------------------------------------------- caller
\* Hand strengths by seat: ascending or descending with the seat number.
Strengths(n) == {[j \in 1..n |-> j], [j \in 1..n |-> n + 1 - j]}

Call(op, s, a, err, new, ret) ==
  [op |-> op, self |-> s, arg |-> a, err |-> err, new |-> new, ret |-> ret]

Init ==
  \E cfg \in Configs : \E strength \in Strengths(cfg.n) :
    LET c == construct(cfg, strength)
    IN /\ states = [x \in {1} |-> c.st]
       /\ tables = [x \in {1} |-> c.tbl]
       /\ hists = [x \in {1} |-> c.hist]
       /\ cur = 1
       /\ last = Call("__init__", 1, Unbound, "", 1, << >>)

\* What a caller may pass to apply_action on state W: None, the three action
\* strings (raise with or without n_chips) and a string that is no action.
\* None of them is checked against legal_actions by the caller.
Inputs(W) ==
  {A("None", NoChips), A("call", NoChips), A("fold", NoChips), A("check", NoChips),
   A("raise", NoChips), A("raise", W.st.small_blind)}

Range(seq) == {seq[j] : j \in DOMAIN seq}

\* The caller derives a successor of its current state, unless the history
\* of that state already has `cap` records.
ApplyUpTo(a, cap) ==
  /\ Cardinality(DOMAIN states) < MaxStates
  /\ Len(hists[states[cur].history]) < cap
  /\ LET r == apply_action(Heap, cur, a)
     IN /\ states' = r.H.states
        /\ tables' = r.H.tables
        /\ hists' = r.H.hists
        /\ last' = Call("apply_action", cur, a, r.err, r.new, << >>)
  /\ cur' = cur

\* The caller moves on to one of the successors; the states it no longer
\* references are dropped.
Descend(c) ==
  /\ c \in DOMAIN states \ {cur}
  /\ LET H == Collect([Heap EXCEPT !.states = Restrict(states, {c})])
     IN /\ states' = H.states
        /\ tables' = H.tables
        /\ hists' = H.hists
  /\ cur' = c
  /\ last' = Call("descend", c, Unbound, "", 0, << >>)

\* The caller reads the legal_actions property of its current state.
Query ==
  /\ last' = Call("legal_actions", cur, Unbound, "", 0, legal_actions(Load(Heap, cur)))
  /\ UNCHANGED <<states, tables, hists, cur>>

Apply(a) == ApplyUpTo(a, MaxHistory)

ApplyAny == \E a \in Inputs(Load(Heap, cur)) : Apply(a)

ApplyLegal ==
  \E a \in Range(legal_actions(Load(Heap, cur))) : ApplyUpTo(a, MaxLegalHistory)

Move == \E c \in Ids : Descend(c)

Next == ApplyAny \/ Move \/ Query

Spec == Init /\ [][Next]_vars

\* legal_actions is a function of the fields it reads (the stage, the raise
\* count, the blinds, the actor and who is active): a state object with any
\* values of these, queried.
QueryInit ==
  \E n \in {2, 3} : \E active \in [1..n -> BOOLEAN] : \E i \in 0..(n - 1) :
  \E stage \in Stages : \E r \in 0..(RaiseCap + 1) :
    /\ states = [x \in {1} |->
                   [table |-> 1, history |-> 1, small_blind |-> 50, big_blind |-> 100,
                    player_i |-> i, betting_stage |-> stage,
                    all_players_have_made_action |-> FALSE, n_raises |-> r]]
    /\ tables = [x \in {1} |->
                   [players |-> [j \in 1..n |->
                                   [n_chips |-> MaxChips, n_bet_chips |-> 0,
                                    is_active |-> active[j], strength |-> j]],
                    pot |-> 0, compute_winners_calls |-> 0]]
    /\ hists = [x \in {1} |-> << >>]
    /\ cur = 1
    /\ last = Call("__init__", 1, Unbound, "", 1, << >>)

QuerySpec == QueryInit /\ [][Query]_vars

\* A caller that only ever applies what legal_actions offers.
LegalNext == ApplyLegal \/ Move \/ Query

LegalSpec == Init /\ [][LegalNext]_vars

\* Arguments of __init__ that are no valid configuration: a blind that is not
\* positive, an empty list of players.  (With a single player the outcome is
\* decided inside round_setup, outside this file; it is not drawn.)
BadConfigs ==
  { [n |-> 2, small_blind |-> 0, big_blind |-> 100, chips |-> MaxChips],
    [n |-> 2, small_blind |-> 50, big_blind |-> 0, chips |-> MaxChips],
    [n |-> 0, small_blind |-> 50, big_blind |-> 100, chips |-> MaxChips] }

\* Before any state has been constructed.
ConstructInit ==
  /\ states = << >>
  /\ tables = << >>
  /\ hists = << >>
  /\ cur = 0
  /\ last = Call("none", 0, Unbound, "", 0, << >>)

\* The caller constructs the state of a hand.  __init__ checks none of its
\* arguments; with no player `players[0]` (line 29) raises IndexError.
Construct ==
  /\ DOMAIN states = {}
  /\ \E cfg \in Configs \cup BadConfigs : \E strength \in Strengths(cfg.n) :
       IF cfg.n = 0
       THEN /\ last' = Call("__init__", 0, Unbound, "IndexError", 0, << >>)
            /\ UNCHANGED <<states, tables, hists, cur>>
       ELSE LET c == construct(cfg, strength)
            IN /\ states' = [x \in {1} |-> c.st]
               /\ tables' = [x \in {1} |-> c.tbl]
               /\ hists' = [x \in {1} |-> c.hist]
               /\ cur' = 1
               /\ last' = Call("__init__", 0, Unbound, "", 1, << >>)

Play == DOMAIN states # {} /\ LegalNext

ConstructNext == Construct \/ Play

ConstructSpec == ConstructInit /\ [][ConstructNext]_vars

TypeOK ==
  /\ cur \in DOMAIN states
  /\ DOMAIN states \subseteq Ids
  /\ \A s \in DOMAIN states :
       /\ states[s].table \in DOMAIN tables
       /\ states[s].history \in DOMAIN hists
       /\ states[s].betting_stage \in Stages
       /\ states[s].player_i \in 0..(Len(tables[states[s].table].players) - 1)

\* ------------------------------------------------------------ properties
View(s) ==
  [st |-> states[s], tbl |-> tables[states[s].table], hist |-> hists[states[s].history]]

Cur == View(cur)

Children == DOMAIN states \ {cur}

HasRoom == Cardinality(DOMAIN states) < MaxStates

Legal(W) == Range(legal_actions(W))

\* C1: apply_action leaves the state it is called on unmodified, whether it
\* returns a successor or raises: the fields of S, its table (every player's
\* stack, bet and active flag, the pot) and its history are the same after
\* the call as before it.
C1_PredecessorUnmodified ==
  [][last'.op = "apply_action" => (cur' = cur /\ View(cur)' = View(cur))]_vars

\* A raise was applied: the successor holds the raise, S does not.
C1_Witness ==
  /\ last.op = "apply_action" /\ last.err = "" /\ last.arg.action_str = "raise"
  /\ View(last.new).tbl.pot > Cur.tbl.pot
  /\ View(last.new).st.n_raises = Cur.st.n_raises + 1
  /\ Len(View(last.new).hist) = Len(Cur.hist) + 1

NoSharing ==
  \A s, t \in DOMAIN states :
    s # t => /\ states[s].table # states[t].table
             /\ states[s].history # states[t].history

\* C2: the successors of a state share no mutable object with each other or
\* with the state: deriving (and thereby mutating) one successor changes
\* neither the successors derived before nor S.
C2_Isolation ==
  [][last'.op = "apply_action" =>
       /\ NoSharing'
       /\ \A s \in DOMAIN states : s \in DOMAIN states' /\ View(s)' = View(s)]_vars

\* Two successors of cur, derived by two distinct legal actions, are alive.
C2_Witness ==
  \E c, d \in Children :
    /\ c # d
    /\ Len(View(c).hist) = Len(Cur.hist) + 1
    /\ Len(View(d).hist) = Len(Cur.hist) + 1
    /\ View(c).hist[Len(View(c).hist)] # View(d).hist[Len(View(d).hist)]
    /\ View(c).hist[Len(View(c).hist)] \in Legal(Cur)
    /\ View(d).hist[Len(View(d).hist)] \in Legal(Cur)
    /\ View(c).tbl # View(d).tbl

\* C3: every action legal_actions offers (fold, call, raise with its amount,
\* the None pass of a folded actor) yields a successor whose history is the
\* history of S with exactly one record appended.
C3_HistoryAppendOnly ==
  HasRoom =>
    \A a \in Legal(Cur) :
      LET r == apply_action(Heap, cur, a)
      IN /\ r.err = ""
         /\ Len(r.H.hists[r.H.states[r.new].history]) = Len(Cur.hist) + 1
         /\ SubSeq(r.H.hists[r.H.states[r.new].history], 1, Len(Cur.hist)) = Cur.hist

\* C4: every chain of legal actions reaches a terminal state: a state that
\* is not terminal has a legal action that yields a successor, so no chain
\* ends before is_terminal.
C4_ReachesTerminal ==
  (HasRoom /\ ~is_terminal(Cur.st)) =>
    \E a \in Legal(Cur) : apply_action(Heap, cur, a).err = ""

RaiseOffered(W) == \E a \in Legal(W) : a.action_str = "raise"

\* C5 as claimed: in a hand that started with three or more players, once
\* three raises have been made in the round no raise is offered for the rest
\* of the round; heads-up, a raise is always offered to an active actor.
C5_Original ==
  \A s \in DOMAIN states :
    /\ (Len(View(s).tbl.players) >= 3 /\ View(s).st.n_raises >= RaiseCap)
         => ~RaiseOffered(View(s))
    /\ (n_active_players(View(s).tbl) = 2 /\ current_player(View(s)).is_active)
         => RaiseOffered(View(s))

\* C5 amended: while three or more players are active, at most three raises
\* are made in a round and no raise is offered once three have been made;
\* whenever exactly two players are active (from the start, or after folds)
\* a raise is offered to an active actor however many raises have been made.
C5_RaiseCap ==
  \A s \in DOMAIN states :
    /\ n_active_players(View(s).tbl) >= 3
         => /\ View(s).st.n_raises <= RaiseCap
            /\ (View(s).st.n_raises = RaiseCap => ~RaiseOffered(View(s)))
    /\ (n_active_players(View(s).tbl) = 2 /\ current_player(View(s)).is_active)
         => RaiseOffered(View(s))

\* Three players active, three raises made, an active actor: no raise offered.
C5_Witness ==
  /\ n_active_players(Cur.tbl) = 3
  /\ Cur.st.n_raises = RaiseCap
  /\ current_player(Cur).is_active
  /\ Cur.st.betting_stage = "pre_flop"

Rank(stage) ==
  CASE stage = "pre_flop" -> 0
    [] stage = "flop" -> 1
    [] stage = "turn" -> 2
    [] stage = "river" -> 3
    [] stage = "show_down" -> 4
    [] stage = "terminal" -> 5

\* C6: along a derivation chain the betting stage never regresses in the
\* order pre_flop < flop < turn < river < show_down, terminal being reachable
\* from every stage and never left for an earlier one.
C6_StageMonotonic ==
  [][/\ Rank(states[cur].betting_stage)' >= Rank(states[cur].betting_stage)
     /\ \A c \in DOMAIN states' :
          Rank(states'[c].betting_stage) >= Rank(states[cur].betting_stage)]_vars

\* The chain has jumped from pre_flop to terminal and gone on from there.
C6_Witness ==
  /\ Cur.st.betting_stage = "terminal"
  /\ Len(Cur.hist) >= 2
  /\ Children # {}

\* C7: settlement is invoked exactly once along a chain: by the transition
\* that first makes the stage show_down or terminal, never before and never
\* again on a state derived afterwards.
C7_SettledOnce ==
  \A s \in DOMAIN states :
    View(s).tbl.compute_winners_calls = IF is_terminal(View(s).st) THEN 1 ELSE 0

\* C8: no action is legal in a state whose stage is show_down or terminal.
C8_NoActionWhenTerminal ==
  \A s \in DOMAIN states : is_terminal(View(s).st) => legal_actions(View(s)) = << >>

Kinds(seq) == [j \in DOMAIN seq |-> seq[j].action_str]

\* C9: for an active actor legal_actions is exactly fold, call and, if and
\* only if fewer than three raises were made or exactly two players are
\* active, one raise whose amount is the small blind in pre_flop and flop and
\* the big blind in turn and river; reading it changes no field of the state.
C9_LegalActions ==
  [][last'.op = "legal_actions" =>
       /\ UNCHANGED <<states, tables, hists, cur>>
       /\ current_player(Cur).is_active =>
            /\ Kinds(last'.ret) =
                 <<"fold", "call">> \o
                 (IF Cur.st.n_raises < 3 \/ n_active_players(Cur.tbl) = 2
                  THEN <<"raise">> ELSE << >>)
            /\ \A j \in DOMAIN last'.ret :
                 last'.ret[j].action_str = "raise" =>
                   /\ Cur.st.betting_stage \in {"pre_flop", "flop"}
                        => last'.ret[j].n_chips = Cur.st.small_blind
                   /\ Cur.st.betting_stage \in {"turn", "river"}
                        => last'.ret[j].n_chips = Cur.st.big_blind]_vars

\* Three active players at the cap on the turn: fold and call only were returned.
C9_Witness ==
  /\ last.op = "legal_actions"
  /\ last.ret = <<A("fold", NoChips), A("call", NoChips)>>
  /\ Cur.st.betting_stage = "turn"
  /\ Cur.st.n_raises = 3
  /\ n_active_players(Cur.tbl) = 3

Count(h, kind) == Cardinality({j \in DOMAIN h : h[j].action_str = kind})

\* Three players, exactly one fold so far, every other action a call.
InFoldAndCallHand(W) ==
  /\ Len(W.tbl.players) = 3
  /\ Count(W.hist, "fold") = 1
  /\ Count(W.hist, "fold") + Count(W.hist, "call") = Len(W.hist)

\* C10: in a three-player hand where one player folded pre_flop and the
\* others only call, a state whose actor is the folded seat offers exactly
\* the None pass, and the chain goes on (the pass for the folded seat, a call
\* for the others) until show_down.
C10_FoldedSeatPasses ==
  (HasRoom /\ InFoldAndCallHand(Cur)) =>
    /\ ~current_player(Cur).is_active => legal_actions(Cur) = <<A("None", NoChips)>>
    /\ ~is_terminal(Cur.st) =>
         apply_action(Heap, cur,
                      IF current_player(Cur).is_active
                      THEN A("call", NoChips) ELSE A("None", NoChips)).err = ""

\* C11: a raise applied when three raises have been made and more than two
\* players are active is rejected before it is recorded: apply_action raises,
\* and no state with more than three raises and more than two active players
\* exists.
C11_RaisePastCapRejected ==
  /\ \A s \in DOMAIN states :
       n_active_players(View(s).tbl) > 2 => View(s).st.n_raises <= RaiseCap
  /\ (HasRoom /\ Cur.st.n_raises >= RaiseCap /\ n_active_players(Cur.tbl) > 2)
       => apply_action(Heap, cur, A("raise", Cur.st.small_blind)).err # ""

\* C12: a raise without a chip amount raises ValueError: no successor is
\* returned, no amount is substituted, and S (its raise count and history
\* included) is as before, so the caller can retry on S.
C12_RaiseNeedsAmount ==
  [][(last'.op = "apply_action" /\ last'.arg = A("raise", NoChips)) =>
       /\ last'.err = "ValueError"
       /\ last'.new = 0
       /\ UNCHANGED <<states, tables, hists, cur>>]_vars

\* The raise without amount was refused on a state that takes a raise with one.
C12_Witness ==
  /\ last.op = "apply_action"
  /\ last.arg = A("raise", NoChips)
  /\ last.err = "ValueError"
  /\ HasRoom
  /\ apply_action(Heap, cur, A("raise", Cur.st.small_blind)).err = ""

\* C13: apply_action yields a successor only when the action kind matches
\* the actor: None exactly when the current actor has folded.  A fold, call
\* or raise for a folded actor and a None for an active one raise.
C13_KindMatchesActor ==
  HasRoom =>
    \A a \in Inputs(Cur) :
      apply_action(Heap, cur, a).err = ""
        => (a.action_str = "None" <=> ~current_player(Cur).is_active)

\* C14: construction raises, and yields no state, when a blind is not
\* positive or fewer than two players are given; a construction that succeeds
\* yields pre_flop, an empty history, seat 0 to act, no raise and an
\* incomplete round.
C14_Construction ==
  /\ \A s \in DOMAIN states :
       /\ View(s).st.small_blind > 0
       /\ View(s).st.big_blind > 0
       /\ Len(View(s).tbl.players) >= 2
  /\ (last.op = "__init__" /\ last.err = "") =>
       /\ Cur.st.betting_stage = "pre_flop"
       /\ Cur.hist = << >>
       /\ Cur.st.player_i = 0
       /\ Cur.st.n_raises = 0
       /\ Cur.st.all_players_have_made_action = FALSE

\* Heads-up with the big blind twice the small blind and deep stacks: seat 0
\* opened with a raise of one small blind, every later action is a call.
InRaiseAndCallHand(W) ==
  /\ Len(W.tbl.players) = 2
  /\ W.st.big_blind = 2 * W.st.small_blind
  /\ W.tbl.players[1].n_chips + W.tbl.players[2].n_chips + W.tbl.pot = 2 * MaxChips
  /\ Len(W.hist) >= 1
  /\ W.hist[1] = A("raise", W.st.small_blind)
  /\ \A j \in 2..Len(W.hist) : W.hist[j] = A("call", NoChips)

\* C15: heads-up with blinds 50/100, the raise of 50 by seat 0 gives one
\* raise in pre_flop; the call by seat 1 then gives the flop with no raise;
\* and calls keep yielding successors, round by round, until the hand is
\* terminal at show_down.
C15_RaiseThenCalls ==
  /\ \A s \in DOMAIN states : InRaiseAndCallHand(View(s)) =>
       /\ Len(View(s).hist) = 1 =>
            View(s).st.n_raises = 1 /\ View(s).st.betting_stage = "pre_flop"
       /\ Len(View(s).hist) = 2 =>
            View(s).st.n_raises = 0 /\ View(s).st.betting_stage = "flop"
  /\ (HasRoom /\ InRaiseAndCallHand(Cur) /\ ~is_terminal(Cur.st)) =>
       apply_action(Heap, cur, A("call", NoChips)).err = ""

C17_FlagMeansAllActed ==
  /\ \A s \in DOMAIN states :
       (View(s).st.all_players_have_made_action /\ View(s).st.betting_stage = "pre_flop")
         => Len(View(s).hist) >= Len(View(s).tbl.players)
  /\ \A c \in Children :
       View(c).st.betting_stage # Cur.st.betting_stage
         => ~View(c).st.all_players_have_made_action

\* C18: a successor whose stage differs from its predecessor's has no raise
\* counted and its round not flagged complete; and the raises counted in a
\* state are the raise records of its history since its stage began (in
\* pre_flop: all of them).
C18_StageChangeResets ==
  /\ \A c \in Children :
       View(c).st.betting_stage # Cur.st.betting_stage
         => /\ View(c).st.n_raises = 0
            /\ View(c).st.all_players_have_made_action = FALSE
  /\ \A s \in DOMAIN states :
       View(s).st.betting_stage = "pre_flop"
         => View(s).st.n_raises = Count(View(s).hist, "raise")

SeatsExist ==
  \A s \in DOMAIN states : View(s).st.player_i \in 0..(Len(View(s).tbl.players) - 1)

\* C19: player_i always denotes a seat of the table, and the successor of a
\* successful apply_action has the seat after its predecessor's, modulo the
\* number of players, whatever the action and whether or not the stage
\* changed.
C19_NextSeat ==
  [][/\ SeatsExist /\ SeatsExist'
     /\ (last'.op = "apply_action" /\ last'.err = "") =>
          states'[last'.new].player_i =
            (states[cur].player_i + 1) % Len(tables[states[cur].table].players)]_vars

\* The last seat acted, the stage changed with it, and seat 0 is next.
C19_Witness ==
  /\ last.op = "apply_action" /\ last.err = ""
  /\ last.new \in DOMAIN states
  /\ Cur.st.player_i = Len(Cur.tbl.players) - 1
  /\ View(last.new).st.player_i = 0
  /\ View(last.new).st.betting_stage # Cur.st.betting_stage

\* The action a applied to W gets as far as being recorded.
Recorded(W, a) ==
  LET r == resolve(W, a, W.tbl.players)
  IN r.err = "" /\ record_action(r.W, r.action).err = ""

\* W after a has been resolved and recorded and the seat advanced.
Advanced(W, a) ==
  LET r == resolve(W, a, W.tbl.players)
  IN next_player(record_action(r.W, r.action).W, Len(W.tbl.players))

\* C20: once the action is recorded and the seat advanced, the successor is
\* terminal if no player has a decision left, whatever the completion flag;
\* otherwise, if the round is flagged complete and no betting is needed, its
\* stage is the next one of pre_flop, flop, turn, river, show_down;
\* otherwise its stage is the predecessor's.
C20_StageDecision ==
  HasRoom => \A a \in Inputs(Cur) :
    Recorded(Cur, a) =>
      LET W2 == Advanced(Cur, a)
          r == apply_action(Heap, cur, a)
          before == Cur.st.betting_stage
      IN IF n_players_with_moves(W2.tbl) = 0
         THEN r.err = "" /\ r.H.states[r.new].betting_stage = "terminal"
         ELSE IF W2.st.all_players_have_made_action /\ ~more_betting_needed(W2.tbl)
              THEN Rank(before) <= Rank("river") =>
                     /\ r.err = ""
                     /\ Rank(r.H.states[r.new].betting_stage) = Rank(before) + 1
              ELSE r.err = "" /\ r.H.states[r.new].betting_stage = before

====
